---------------------------- MODULE Spec2Model ----------------------------
(***************************************************************************)
(* A model of jsonschema-typed: the JSON-schema-to-TypedDict compiler of   *)
(* src/jsonschema_typed/plugin.py (API.get_type and the APIv4/6/7 keyword  *)
(* handlers, JSONSchemaPlugin.make_subschema, the draft dispatch of the    *)
(* JSONSchema callback, TypeMaker) and the OptionalTypedDict callback of   *)
(* src/jsonschema_typed/optional_typed_dict.py.                            *)
(*                                                                         *)
(* Representation.                                                         *)
(*   A schema (a Python dict) is a function from the keywords it holds to  *)
(*   their values; "k in schema" is k \in DOMAIN schema.                   *)
(*     type        [isList, names]: a string or a list of strings          *)
(*     properties  a sequence of [key, schema] (dict insertion order)      *)
(*     definitions a sequence of [key, schema]                             *)
(*     required    a sequence of strings                                   *)
(*     enum        a sequence of JSON scalars [t, v]                       *)
(*     items       [k, b, l]: a schema, a boolean or a list of schemas     *)
(*     allOf, anyOf, oneOf   sequences of schemas                          *)
(*     $id, title, $schema   sequences of characters (the code slices,     *)
(*                 extends and pattern-matches them)                       *)
(*     $ref        the sequence of its pointer parts, <<"#">> for "#"      *)
(*   A mypy type is a record tagged by k: Instance, Union, Literal, Any,   *)
(*   None, Tuple, TypedDict; Python's None result is Nothing.              *)
(*   A compile threads the resolver and the outcome through every call as  *)
(*   st = [stack, warns, err, calls]: the RefResolver scope stack, the     *)
(*   warnings issued so far, the exception in flight ("" when none) and a  *)
(*   log with one entry per get_type call.                                 *)
(***************************************************************************)
EXTENDS Integers, Sequences, FiniteSets, TLC

(***************************************************************************)
(* Python dicts and sequences                                              *)
(***************************************************************************)
EmptyDict == <<>>

Has(d, k) == k \in DOMAIN d

With(d, k, v) == [x \in (DOMAIN d) \cup {k} |-> IF x = k THEN v ELSE d[x]]

Without(d, k) == [x \in (DOMAIN d) \ {k} |-> d[x]]

\* dict.update(other): the keys of other win.
Update(d, other) ==
    [x \in (DOMAIN d) \cup (DOMAIN other) |-> IF x \in DOMAIN other THEN other[x] ELSE d[x]]

Range(s) == {s[i] : i \in 1..Len(s)}

RECURSIVE SelectPairs(_, _)
\* the [key, schema] pairs of a dict whose key is not in the set skip
SelectPairs(pairs, skip) ==
    IF pairs = <<>> THEN <<>>
    ELSE IF Head(pairs).key \in skip THEN SelectPairs(Tail(pairs), skip)
    ELSE <<Head(pairs)>> \o SelectPairs(Tail(pairs), skip)

HasKey(pairs, key) == \E i \in 1..Len(pairs) : pairs[i].key = key

Lookup(pairs, key) == pairs[CHOOSE i \in 1..Len(pairs) : pairs[i].key = key].schema

Pair(key, schema) == [key |-> key, schema |-> schema]

(***************************************************************************)
(* Schema values                                                           *)
(***************************************************************************)
TStr(name) == [isList |-> FALSE, names |-> <<name>>]

TList(names) == [isList |-> TRUE, names |-> names]

JV(t, v) == [t |-> t, v |-> v]

ItemsSchema(s) == [k |-> "schema", b |-> FALSE, l |-> <<s>>]

ItemsBool(b) == [k |-> "bool", b |-> b, l |-> <<>>]

ItemsList(l) == [k |-> "list", b |-> FALSE, l |-> l]

(***************************************************************************)
(* mypy types                                                              *)
(***************************************************************************)
Nothing == [k |-> "Nothing"]

AnyType == [k |-> "Any"]

NoneType == [k |-> "None"]

Instance(name, args) == [k |-> "Instance", name |-> name, args |-> args]

LiteralType(value, fallback) == [k |-> "Literal", value |-> value, fallback |-> fallback]

TupleType(items) == [k |-> "Tuple", items |-> items]

TypedDictType(name, items, required_keys) ==
    [k |-> "TypedDict", name |-> name, items |-> items, required_keys |-> required_keys]

RECURSIVE flatten_nested_unions(_)
flatten_nested_unions(types) ==
    IF types = <<>> THEN <<>>
    ELSE LET tp == Head(types)
         IN  (IF tp.k = "Union" THEN flatten_nested_unions(tp.items) ELSE <<tp>>)
             \o flatten_nested_unions(Tail(types))

\* mypy.types.UnionType.__init__ stores flatten_nested_unions(items).
UnionType(items) == [k |-> "Union", items |-> flatten_nested_unions(items)]

named_builtin_type(name, args) == Instance(name, args)

(***************************************************************************)
(* The threaded compile state and the jsonschema RefResolver               *)
(***************************************************************************)
NoErr == ""

Scope(id, frag) == [id |-> id, frag |-> frag]

NewState(stack) == [stack |-> stack, warns |-> <<>>, err |-> NoErr, calls |-> <<>>]

Ret(ty, st) == [ty |-> ty, st |-> st]

Raise(st, e) == Ret(Nothing, [st EXCEPT !.err = e])

Warn(st, w) == [st EXCEPT !.warns = Append(@, w)]

push_scope(st, scope) == [st EXCEPT !.stack = Append(@, scope)]

pop_scope(st) ==
    IF st.stack = <<>> THEN [st EXCEPT !.err = "RefResolutionError"]
    ELSE [st EXCEPT !.stack = SubSeq(@, 1, Len(@) - 1)]

\* jsonschema.validators._id_of: schema.get("$id", "")
id_of(schema) == IF Has(schema, "$id") THEN schema["$id"] ELSE <<>>


\* RefResolver.resolve_fragment for the pointers "#/<keyword>/<name>".  A ref is
\* the sequence of its pointer parts: <<"#">> is "#", <<"#", "definitions",
\* "d">> is "#/definitions/d".
CanResolveFragment(document, parts) ==
    /\ Len(parts) = 3
    /\ parts[2] \in {"definitions", "properties"}
    /\ Has(document, parts[2])
    /\ HasKey(document[parts[2]], parts[3])

resolve_fragment(document, parts) == Lookup(document[parts[2]], parts[3])

\* RefResolver.resolve: url = urljoin(resolution_scope, ref); the store holds the
\* referrer under its base URI only, any other document has to be fetched and
\* is not there.  Returns [ok, url, resolved].
resolve(api, st, ref) ==
    LET resolution_scope == st.stack[Len(st.stack)]
        url == Scope(resolution_scope.id, ref)
    IN  IF resolution_scope.id = api.base /\ CanResolveFragment(api.root, ref)
        THEN [ok |-> TRUE, url |-> url, resolved |-> resolve_fragment(api.root, ref)]
        ELSE [ok |-> FALSE, url |-> url, resolved |-> EmptyDict]

(***************************************************************************)
(* API, APIv4, APIv6, APIv7                                                *)
(***************************************************************************)
\* The type strings that name a handler method of the API classes.
HandlerNames ==
    {"boolean", "object", "array", "string", "number", "integer", "null", "any"}

\* The type strings of the model that start with an underscore.
UnderscoreNames == {"_private"}

\* The depth of nested get_type calls at which the interpreter gives up
\* (RecursionError): a stand-in for Python's recursion limit.
RecursionLimit == 6

CallEntry(schema, outer, branch, entry, res, d) ==
    [hasId  |-> id_of(schema) # <<>>,
     id     |-> id_of(schema),
     depth  |-> d,
     outer  |-> outer,
     branch |-> branch,
     entry  |-> entry,
     exit   |-> res.st.stack,
     raised |-> res.st.err # NoErr]

RECURSIVE get_type(_, _, _, _, _)
RECURSIVE get_types(_, _, _, _)
RECURSIVE union_of_types(_, _, _, _, _)

NoTypes(st) == [tys |-> <<>>, st |-> st]

Prepend(ty, rest) == [tys |-> <<ty>> \o rest.tys, st |-> rest.st]

\* The rest of a comprehension after its first element h: an exception ends it.
TypesAfter(h, api, schemas, d) ==
    IF h.st.err # NoErr THEN NoTypes(h.st)
    ELSE Prepend(h.ty, get_types(api, schemas, h.st, d))

\* [self.get_type(ctx, s) for s in schemas]: [tys, st]
get_types(api, schemas, st, d) ==
    IF schemas = <<>> THEN NoTypes(st)
    ELSE TypesAfter(get_type(api, Head(schemas), FALSE, st, d), api, Tail(schemas), d)

\* filter(lambda o: o is not None, types)
NotNone(types) == SelectSeq(types, LAMBDA o : o # Nothing)

const(value) == LiteralType(value, named_builtin_type(value.t, <<>>))

enum(values, st) == Ret(UnionType([i \in 1..Len(values) |-> const(values[i])]), st)

boolean(schema, st) ==
    IF Has(schema, "properties")
    THEN LET props == schema.properties
             s1 == IF HasKey(props, "default") THEN Warn(st, "default") ELSE st
         IN  IF HasKey(props, "const") THEN Ret(const(Lookup(props, "const")), s1)
             ELSE Ret(named_builtin_type("bool", <<>>), s1)
    ELSE Ret(named_builtin_type("bool", <<>>), st)

Field(key, ty) == [key |-> key, ty |-> ty]

\* APIv4.object from the zip(*filter(...)) on: props are the properties
\* compiled, got their types.
TypedDictOf(api, schema, outer, props, got) ==
    LET pairs == [i \in 1..Len(props) |-> Field(props[i].key, got.tys[i])]
        kept == SelectSeq(pairs, LAMBDA o : o.ty # Nothing)
        required_keys == IF Has(schema, "required") THEN Range(schema.required) ELSE {}
    IN  IF kept = <<>> THEN Raise(got.st, "ValueError")      \* zip(*[]) unpacked
        ELSE Ret(TypedDictType(IF outer THEN api.outer_name ELSE <<>>, kept, required_keys),
                 got.st)

ObjectOf(api, schema, outer, props, got) ==
    IF got.st.err # NoErr THEN Ret(Nothing, got.st)
    ELSE TypedDictOf(api, schema, outer, props, got)

Schemas(pairs) == [i \in 1..Len(pairs) |-> pairs[i].schema]

object(api, schema, outer, st, d) ==
    IF ~Has(schema, "properties") THEN Ret(named_builtin_type("dict", <<>>), st)
    ELSE ObjectOf(api, schema, outer,
                  SelectPairs(schema.properties, {"default", "const"}),
                  get_types(api, Schemas(SelectPairs(schema.properties, {"default", "const"})),
                            st, d))

\* ctx.api.tuple_type(inner_types) / named_builtin_type(ctx, "list", inner_types)
ArrayOf(isTuple, got) ==
    IF got.st.err # NoErr THEN Ret(Nothing, got.st)
    ELSE IF isTuple THEN Ret(TupleType(got.tys), got.st)
    ELSE Ret(named_builtin_type("list", got.tys), got.st)

\* A variant of ItemBounds that looks at maxItems alone.
ItemBoundsMaxOnly(schema, n) ==
    (IF Has(schema, "maxItems") THEN {schema.maxItems} ELSE {}) \ {n}

\* {schema.get("minItems"), schema.get("maxItems")} - {None, len(items)}
ItemBounds(schema, n) ==
    ((IF Has(schema, "minItems") THEN {schema.minItems} ELSE {})
     \cup (IF Has(schema, "maxItems") THEN {schema.maxItems} ELSE {})) \ {n}

array(api, schema, st, d) ==
    IF ~Has(schema, "items") THEN Ret(named_builtin_type("list", <<>>), st)
    ELSE IF schema.items.k = "bool"
    THEN IF schema.items.b THEN Ret(named_builtin_type("list", <<AnyType>>), st)
         ELSE Raise(st, "NotImplementedError:items")
    ELSE IF schema.items.k = "list" /\ ItemBounds(schema, Len(schema.items.l)) # {}
    THEN Raise(st, "NotImplementedError:items")
    ELSE ArrayOf(schema.items.k = "list", get_types(api, schema.items.l, st, d))

\* UnionType(list(filter(lambda o: o is not None, [...])))
UnionOf(got) ==
    IF got.st.err # NoErr THEN Ret(Nothing, got.st)
    ELSE Ret(UnionType(NotNone(got.tys)), got.st)

anyOf(api, subschema, st, d) == UnionOf(get_types(api, subschema, st, d))

allOf(api, subschema, st, d) == UnionOf(get_types(api, subschema, Warn(st, "allOf"), d))

any(st) == Ret(AnyType, st)

\* try: return self.get_type(ctx, resolved) finally: self.resolver.pop_scope()
Finally(got) == Ret(got.ty, pop_scope(got.st))

\* A variant of ref that gives a record of no fields for the self-reference.
ref_empty_record(api, r, st, d) ==
    IF r = <<"#">> THEN Ret(TypedDictType(<<>>, <<>>, {}), Warn(st, "forward-ref"))
    ELSE IF ~resolve(api, st, r).ok THEN Raise(st, "RefResolutionError")
    ELSE Finally(get_type(api, resolve(api, st, r).resolved, FALSE,
                          push_scope(st, resolve(api, st, r).url), d))

ref(api, r, st, d) ==
    IF r = <<"#">> THEN object(api, EmptyDict, FALSE, Warn(st, "forward-ref"), d)
    ELSE IF ~resolve(api, st, r).ok THEN Raise(st, "RefResolutionError")
    ELSE Finally(get_type(api, resolve(api, st, r).resolved, FALSE,
                          push_scope(st, resolve(api, st, r).url), d))

string(st) == Ret(named_builtin_type("str", <<>>), st)

number(st) ==
    Ret(UnionType(<<named_builtin_type("int", <<>>), named_builtin_type("float", <<>>)>>), st)

\* A variant of integer without the override of APIv6: int under every draft.
integer_draft04(api, st) == Ret(named_builtin_type("int", <<>>), st)

\* APIv4.integer, overridden by APIv6.integer (APIv7 inherits it).
integer(api, st) ==
    IF api.version = "APIv4" THEN Ret(named_builtin_type("int", <<>>), st)
    ELSE Ret(UnionType(<<named_builtin_type("int", <<>>),
                         named_builtin_type("float", <<>>)>>), st)

null(st) == Ret(NoneType, st)

default(st) == Ret(Nothing, Warn(st, "default"))

\* API.get_type_handler: "" when a handler is found, else the exception raised.
get_type_handler(schema_type) ==
    IF schema_type \in UnderscoreNames THEN "AttributeError"
    ELSE IF schema_type \notin HandlerNames THEN "NotImplementedError:type"
    ELSE NoErr

_get_type(api, schema, schema_type, outer, st, d) ==
    IF Has(schema, "enum") THEN enum(schema.enum, st)
    ELSE IF get_type_handler(schema_type) # NoErr THEN Raise(st, get_type_handler(schema_type))
    ELSE CASE schema_type = "boolean" -> boolean(schema, st)
           [] schema_type = "object"  -> object(api, schema, outer, st, d)
           [] schema_type = "array"   -> array(api, schema, st, d)
           [] schema_type = "string"  -> string(st)
           [] schema_type = "number"  -> number(st)
           [] schema_type = "integer" -> integer(api, st)
           [] schema_type = "null"    -> null(st)
           [] schema_type = "any"     -> any(st)

PrimitivesAfter(h, api, schema, names, d) ==
    IF h.st.err # NoErr THEN NoTypes(h.st)
    ELSE Prepend(h.ty, union_of_types(api, schema, names, h.st, d))

\* [self._get_type(ctx, schema, primitive_type, outer=outer) for primitive_type in names]
union_of_types(api, schema, names, st, d) ==
    IF names = <<>> THEN NoTypes(st)
    ELSE PrimitivesAfter(_get_type(api, schema, Head(names), FALSE, st, d),
                         api, schema, Tail(names), d)

\* UnionType([...]) of the list comprehension
UnionOfTypes(got) ==
    IF got.st.err # NoErr THEN Ret(Nothing, got.st)
    ELSE Ret(UnionType(got.tys), got.st)

\* A variant of Branch without the fallback of the outer type list: the list
\* is compiled to a union at the outer position as it is at a nested one.
BranchRootUnion(schema, outer) ==
    IF Has(schema, "type") /\ schema.type.isList THEN "types"
    ELSE IF Has(schema, "type") THEN "typed"
    ELSE IF Has(schema, "$ref") THEN "$ref"
    ELSE IF Has(schema, "allOf") THEN "allOf"
    ELSE IF Has(schema, "anyOf") THEN "anyOf"
    ELSE IF Has(schema, "oneOf") THEN "oneOf"
    ELSE IF Has(schema, "enum") THEN "enum"
    ELSE IF Has(schema, "default") THEN "default"
    ELSE "assert"

\* The branch of get_type a schema takes.
Branch(schema, outer) ==
    IF Has(schema, "type") /\ schema.type.isList
    THEN IF ~outer THEN "types"
         ELSE IF "object" \in Range(schema.type.names) THEN "typed" ELSE "root"
    ELSE IF Has(schema, "type") THEN "typed"
    ELSE IF Has(schema, "$ref") THEN "$ref"
    ELSE IF Has(schema, "allOf") THEN "allOf"
    ELSE IF Has(schema, "anyOf") THEN "anyOf"
    ELSE IF Has(schema, "oneOf") THEN "oneOf"
    ELSE IF Has(schema, "enum") THEN "enum"
    ELSE IF Has(schema, "default") THEN "default"
    ELSE "assert"

\* if scope: self.resolver.push_scope(scope)
Entered(schema, st) ==
    IF id_of(schema) # <<>> THEN push_scope(st, Scope(id_of(schema), <<>>)) ELSE st

\* if scope: self.resolver.pop_scope()
Left(schema, st) == IF id_of(schema) # <<>> THEN pop_scope(st) ELSE st

get_type_body(api, schema, outer, st, d) ==
    LET s1 == Entered(schema, st)
        s2 == Left(schema, s1)
        branch == Branch(schema, outer)
    IN  CASE branch = "root" -> Raise(s1, "NotImplementedError:root")
          [] branch = "types" ->
               UnionOfTypes(union_of_types(api, schema, schema.type.names, s1, d))
          [] branch = "$ref" -> ref(api, schema["$ref"], s1, d)
          [] branch = "allOf" -> allOf(api, schema.allOf, s1, d)
          [] branch \in {"anyOf", "oneOf"} -> anyOf(api, schema[branch], s1, d)
          [] branch = "enum" -> enum(schema.enum, s1)
          [] branch = "default" -> default(s1)
          [] branch = "assert" -> Raise(s2, "AssertionError")
          [] branch = "typed" ->
               _get_type(api, schema,
                         IF schema.type.isList THEN "object" ELSE schema.type.names[1],
                         outer,
                         IF schema.type.isList THEN Warn(s2, "root-array") ELSE s2, d)

\* The call's entry in the log, added as it ends.
Logged(schema, outer, entry, res, d) ==
    Ret(res.ty, [res.st EXCEPT !.calls =
                    Append(@, CallEntry(schema, outer, Branch(schema, outer), entry, res, d))])

get_type(api, schema, outer, st, d) ==
    IF d >= RecursionLimit THEN Raise(st, "RecursionError")
    ELSE Logged(schema, outer, st.stack, get_type_body(api, schema, outer, st, d + 1), d)

(***************************************************************************)
(* Characters: str.title, str.replace and the draft pattern                *)
(***************************************************************************)
Lower == <<"a", "b", "c", "d", "e", "f", "g", "h", "i", "j", "k", "l", "m",
           "n", "o", "p", "q", "r", "s", "t", "u", "v", "w", "x", "y", "z">>

Upper == <<"A", "B", "C", "D", "E", "F", "G", "H", "I", "J", "K", "L", "M",
           "N", "O", "P", "Q", "R", "S", "T", "U", "V", "W", "X", "Y", "Z">>

Digits == {"0", "1", "2", "3", "4", "5", "6", "7", "8", "9"}

IsCased(c) == c \in Range(Lower) \cup Range(Upper)

Index(c) == CHOOSE i \in 1..Len(Lower) : Lower[i] = c \/ Upper[i] = c

ToUpper(c) == IF IsCased(c) THEN Upper[Index(c)] ELSE c

ToLower(c) == IF IsCased(c) THEN Lower[Index(c)] ELSE c

\* str.replace(old, new) for one-character old
Replace(chars, old, new) ==
    [i \in 1..Len(chars) |-> IF chars[i] = old THEN new ELSE chars[i]]

\* str.title(): a cased character is upper-cased after an uncased one (or at
\* the start) and lower-cased after a cased one.
Title(chars) ==
    [i \in 1..Len(chars) |->
        IF i > 1 /\ IsCased(chars[i - 1]) THEN ToLower(chars[i]) ELSE ToUpper(chars[i])]

\* TypeMaker._sanitize_name
_sanitize_name(name) == SelectSeq(Title(Replace(name, "-", " ")), LAMBDA c : c # " ")

DraftPrefix == <<"d", "r", "a", "f", "t", "-">>

MatchesAt(chars, i) ==
    /\ i + Len(DraftPrefix) <= Len(chars)
    /\ SubSeq(chars, i, i + Len(DraftPrefix) - 1) = DraftPrefix
    /\ chars[i + Len(DraftPrefix)] \in Digits

RECURSIVE DigitsEnd(_, _)
\* the last index of the run of digits that starts at i
DigitsEnd(chars, i) ==
    IF i < Len(chars) /\ chars[i + 1] \in Digits THEN DigitsEnd(chars, i + 1) ELSE i

\* next(re.finditer(r"draft-\d+", draft_version)).group(): [found, group]
FirstDraft(chars) ==
    LET starts == {i \in 1..Len(chars) : MatchesAt(chars, i)}
        first == CHOOSE i \in starts : \A j \in starts : i <= j
    IN  IF starts = {} THEN [found |-> FALSE, group |-> <<>>]
        ELSE [found |-> TRUE,
              group |-> SubSeq(chars, first, DigitsEnd(chars, first + Len(DraftPrefix)))]

\* {"draft-04": APIv4, "draft-06": APIv6, "draft-07": APIv7}.get(group, APIv7)
api_version(group) ==
    CASE group = DraftPrefix \o <<"0", "4">> -> "APIv4"
      [] group = DraftPrefix \o <<"0", "6">> -> "APIv6"
      [] group = DraftPrefix \o <<"0", "7">> -> "APIv7"
      [] OTHER -> "APIv7"

DefaultDraft == <<"d", "e", "f", "a", "u", "l", "t">>

DefaultTitle == <<"J", "S", "O", "N", "S", "c", "h", "e", "m", "a">>

(***************************************************************************)
(* TypeMaker                                                               *)
(***************************************************************************)
\* TypeMaker.__init__: the outer name, RefResolver.from_schema(schema) and the API
TypeMakerApi(schema, version) ==
    [version    |-> version,
     outer_name |-> _sanitize_name(IF Has(schema, "title") THEN schema.title
                                   ELSE DefaultTitle),
     root       |-> schema,
     base       |-> id_of(schema)]

\* TypeMaker.__call__: self.api.get_type(ctx, self.schema, outer=True), with the
\* scope stack RefResolver.__init__ sets up, [base_uri].
TypeMaker(schema, version) ==
    get_type(TypeMakerApi(schema, version), schema, TRUE,
             NewState(<<Scope(id_of(schema), <<>>)>>), 0)

(***************************************************************************)
(* JSONSchemaPlugin.make_subschema                                         *)
(***************************************************************************)
Inherited == {"$schema", "$id", "title", "type", "properties", "items"}

TypeIs(schema, name) ==
    Has(schema, "type") /\ ~schema.type.isList /\ schema.type.names = <<name>>

RECURSIVE UnwrapItems(_)
\* while "items" in schema: items = schema["items"]; del schema["items"];
\* schema.update(items)        -- [schema, err]
UnwrapItems(schema) ==
    IF ~Has(schema, "items") THEN [schema |-> schema, err |-> NoErr]
    ELSE IF schema.items.k # "schema"
         THEN [schema |-> Without(schema, "items"), err |-> "TypeError"]
         ELSE UnwrapItems(Update(Without(schema, "items"), schema.items.l[1]))

\* f"/{key}" and f" {key}": a key is one character in the model's paths
Suffix(sep, key) == <<sep, key>>

\* One round of "for key in key_path" on r = [schema, err, done].
NarrowKey(r, key) ==
    IF r.err # NoErr \/ r.done THEN r
    ELSE LET un == IF TypeIs(r.schema, "array") THEN UnwrapItems(r.schema)
                   ELSE [schema |-> r.schema, err |-> NoErr]
             s1 == un.schema
             sub == Lookup(s1.properties, key)
             s2 == Update(s1, sub)
             s3 == IF Has(s2, "$id") THEN With(s2, "$id", s2["$id"] \o Suffix("/", key))
                   ELSE s2
             s4 == IF Has(s3, "title") THEN With(s3, "title", s3.title \o Suffix(" ", key))
                   ELSE s3
         IN  IF un.err # NoErr THEN [schema |-> s1, err |-> un.err, done |-> TRUE]
             ELSE IF TypeIs(r.schema, "array") /\ ~TypeIs(s1, "object")
             THEN [schema |-> s1, err |-> NoErr, done |-> TRUE]          \* return schema
             ELSE IF ~TypeIs(s1, "object") \/ ~Has(s1, "properties")
                     \/ ~(key = "#" \/ HasKey(s1.properties, key))
             THEN [schema |-> s1, err |-> "AssertionError", done |-> TRUE]
             ELSE IF key = "#" THEN [schema |-> s1, err |-> NoErr, done |-> FALSE]
             ELSE [schema |-> s4, err |-> NoErr, done |-> FALSE]

RECURSIVE NarrowKeys(_, _)
NarrowKeys(r, key_path) ==
    IF key_path = <<>> THEN r
    ELSE NarrowKeys(NarrowKey(r, Head(key_path)), Tail(key_path))

\* make_subschema(schema, key_path): [schema, err]
make_subschema(schema, key_path) ==
    LET stripped == [k \in (DOMAIN schema) \cap Inherited |-> schema[k]]
        r == NarrowKeys([schema |-> stripped, err |-> NoErr, done |-> FALSE], key_path)
    IN  IF r.err # NoErr \/ r.done THEN [schema |-> r.schema, err |-> r.err]
        ELSE IF Has(r.schema, "properties") /\ ~TypeIs(r.schema, "object")
        THEN [schema |-> Without(r.schema, "properties"), err |-> NoErr]
        ELSE [schema |-> r.schema, err |-> NoErr]

(***************************************************************************)
(* JSONSchemaPlugin.get_type_analyze_hook.callback                         *)
(***************************************************************************)
\* The callback on the schema file loaded and the key path given:
\* [schema, version, ty, st], st.err the exception that ended it ("" if none).
Analysed(schema, version, made) ==
    [schema |-> schema, version |-> version, ty |-> made.ty, st |-> made.st]

Failed(schema, e) ==
    [schema |-> schema, version |-> "", ty |-> Nothing,
     st |-> [NewState(<<>>) EXCEPT !.err = e]]

\* From "draft_version = ..." on, on the schema narrowed.
Dispatch(schema) ==
    LET draft_version == IF Has(schema, "$schema") THEN schema["$schema"] ELSE DefaultDraft
        m == FirstDraft(draft_version)
    IN  IF ~m.found THEN Failed(schema, "StopIteration")
        ELSE Analysed(schema, api_version(m.group), TypeMaker(schema, api_version(m.group)))

Narrowed(sub) == IF sub.err # NoErr THEN Failed(sub.schema, sub.err) ELSE Dispatch(sub.schema)

JSONSchemaCallback(f, key_path) ==
    IF key_path # <<>> THEN Narrowed(make_subschema(f, key_path)) ELSE Dispatch(f)

(***************************************************************************)
(* OptionalTypedDictPlugin.get_type_analyze_hook.callback                  *)
(***************************************************************************)
\* A variant of ClearRequired that also clears the required keys of the
\* records nested in the fields.
ClearRequiredNested(typed_dict_type) ==
    IF typed_dict_type.k = "TypedDict"
    THEN [typed_dict_type EXCEPT
            !.required_keys = {},
            !.items = [i \in DOMAIN @ |->
                         [@[i] EXCEPT !.ty = IF @.k = "TypedDict"
                                             THEN [@ EXCEPT !.required_keys = {}]
                                             ELSE @]]]
    ELSE typed_dict_type

\* typed_dict_type.required_keys = set() (directly or through .alias.target)
\* on the analysed type object; a type that is no TypedDict is left as it is.
ClearRequired(typed_dict_type) ==
    IF typed_dict_type.k = "TypedDict"
    THEN [typed_dict_type EXCEPT !.required_keys = {}]
    ELSE typed_dict_type

(***************************************************************************)
(* The inputs: the schema files of the model                               *)
(***************************************************************************)
MaxEnum == 2

MaxProps == 2

Draft04 == <<"h", "t", "t", "p", ":", "/", "/", "j", "s", "o", "n", "-", "s", "c", "h", "e", "m", "a", ".", "o", "r", "g", "/", "d", "r", "a", "f", "t", "-", "0", "4", "/", "s", "c", "h", "e", "m", "a", "#">>

Draft06 == <<"h", "t", "t", "p", ":", "/", "/", "j", "s", "o", "n", "-", "s", "c", "h", "e", "m", "a", ".", "o", "r", "g", "/", "d", "r", "a", "f", "t", "-", "0", "6", "/", "s", "c", "h", "e", "m", "a", "#">>

Draft07 == <<"h", "t", "t", "p", ":", "/", "/", "j", "s", "o", "n", "-", "s", "c", "h", "e", "m", "a", ".", "o", "r", "g", "/", "d", "r", "a", "f", "t", "-", "0", "7", "/", "s", "c", "h", "e", "m", "a", "#">>

Draft03 == <<"h", "t", "t", "p", ":", "/", "/", "j", "s", "o", "n", "-", "s", "c", "h", "e", "m", "a", ".", "o", "r", "g", "/", "d", "r", "a", "f", "t", "-", "0", "3", "/", "s", "c", "h", "e", "m", "a", "#">>

Draft2019 == <<"h", "t", "t", "p", "s", ":", "/", "/", "j", "s", "o", "n", "-", "s", "c", "h", "e", "m", "a", ".", "o", "r", "g", "/", "d", "r", "a", "f", "t", "/", "2", "0", "1", "9", "-", "0", "9", "/", "s", "c", "h", "e", "m", "a">>

TwoDrafts == <<"d", "r", "a", "f", "t", "-", "0", "6", " ", "d", "r", "a", "f", "t", "-", "0", "4">>

SchemaURIs == {Draft04, Draft06, Draft07, Draft03, Draft2019, TwoDrafts}

EnumValues == <<JV("int", "1"), JV("str", "a"), JV("int", "2"), JV("str", "b")>>

Enums == {SubSeq(EnumValues, 1, n) : n \in 1..MaxEnum}

Typed(name) == [type |-> TStr(name)]

TypedList(names) == [type |-> TList(names)]

WithId(schema, id) == With(schema, "$id", id)

Ref(parts) == With(EmptyDict, "$ref", parts)

DefaultOnly == [default |-> JV("int", "0")]

TypeNames == HandlerNames \cup UnderscoreNames \cup {"foo"}

TypeLists == {<<"string", "null">>, <<"object", "string">>, <<"integer">>}

PlainLeaves ==
    {Typed(n) : n \in TypeNames}
    \cup {TypedList(l) : l \in TypeLists}
    \cup {[enum |-> e] : e \in Enums}
    \cup {[type |-> TStr(n), enum |-> e] : n \in {"string", "foo"}, e \in Enums}
    \cup {[type |-> TList(l), enum |-> e] : l \in TypeLists, e \in Enums}
    \cup {DefaultOnly, EmptyDict}
    \cup {Ref(<<"#">>), Ref(<<"#", "definitions", "d">>), Ref(<<"#", "definitions", "e">>),
          Ref(<<"#", "definitions", "c">>), Ref(<<"#", "definitions", "missing">>)}
    \cup {[anyOf |-> <<Typed("string"), DefaultOnly>>],
          [oneOf |-> <<Typed("integer"), Typed("null")>>],
          [allOf |-> <<Typed("string"), [enum |-> SubSeq(EnumValues, 1, 1)]>>],
          [anyOf |-> <<WithId(Typed("string"), <<"v">>), Ref(<<"#", "definitions", "d">>)>>]}

Leaves == PlainLeaves \cup {WithId(l, <<"u">>) : l \in PlainLeaves}

Definitions ==
    <<Pair("d", Typed("string")),
      Pair("e", WithId([enum |-> SubSeq(EnumValues, 1, 1)], <<"w">>)),
      Pair("c", Ref(<<"#", "definitions", "c">>))>>

\* A root document: the schema with its $schema and its definitions.
Document(schema, uri) ==
    With(With(schema, "$schema", uri), "definitions", Definitions)

\* Every leaf at the root, under a property, and as the items of an array.
LeafFiles ==
    {Document(l, Draft07) : l \in Leaves}
    \cup {Document([type |-> TStr("object"), properties |-> <<Pair("a", l)>>], Draft07) :
            l \in Leaves}
    \cup {Document([type |-> TStr("array"), items |-> ItemsSchema(l)], Draft07) :
            l \in Leaves}
    \cup {Document(WithId([type |-> TStr("object"), properties |-> <<Pair("a", l)>>], <<"r">>),
                   Draft07) : l \in PlainLeaves}

PropKeys == {"a", "b", "default"}

FieldSchemas == {Typed("string"), Typed("integer"), DefaultOnly}

RECURSIVE PropertyMaps(_)
\* the properties maps of exactly n entries with distinct keys
PropertyMaps(n) ==
    IF n = 0 THEN {<<>>}
    ELSE {Append(m, Pair(key, fs)) :
            m \in PropertyMaps(n - 1), key \in PropKeys, fs \in FieldSchemas}

DistinctKeys(m) == \A i, j \in 1..Len(m) : m[i].key = m[j].key => i = j

Properties == UNION {{m \in PropertyMaps(n) : DistinctKeys(m)} : n \in 0..MaxProps}

Requireds == {<<"a">>, <<"b", "c">>}

Objects ==
    {[type |-> TStr("object"), properties |-> m] : m \in Properties}
    \cup {[type |-> TStr("object"), properties |-> m, required |-> r] :
            m \in Properties, r \in Requireds}

\* Records at the root, under a root type list, and nested under a property.
ObjectFiles ==
    {Document(o, Draft07) : o \in Objects}
    \cup {Document(With(o, "type", TList(l)), Draft07) :
            o \in Objects, l \in {<<"object", "string">>, <<"string", "null">>}}
    \cup {Document([type |-> TStr("object"), properties |-> <<Pair("n", o)>>,
                    required |-> <<"n">>], Draft07) : o \in Objects}

\* The drafts: a schema of type integer, alone and under a property.
DraftFiles ==
    {With(Typed("integer"), "$schema", uri) : uri \in SchemaURIs}
    \cup {With([type |-> TStr("object"), properties |-> <<Pair("a", Typed("integer"))>>],
               "$schema", uri) : uri \in SchemaURIs}
    \cup {Typed("integer"),
          [type |-> TStr("object"), properties |-> <<Pair("a", Typed("integer"))>>]}

\* The longest items sequence of the tuples.
MaxItems == 2

TupleElements == {Typed("string"), Typed("integer"), DefaultOnly}

RECURSIVE ItemSequences(_)
\* the items sequences of exactly n schemas
ItemSequences(n) ==
    IF n = 0 THEN {<<>>}
    ELSE {Append(l, s) : l \in ItemSequences(n - 1), s \in TupleElements}

\* minItems / maxItems: absent (-1) or a number
ItemCounts == {-1} \cup 1..(MaxItems + 1)

WithCount(schema, kw, n) == IF n < 0 THEN schema ELSE With(schema, kw, n)

\* Arrays: items a sequence with and without minItems and maxItems, items a
\* boolean, at the root and under a property.
Arrays ==
    {WithCount(WithCount([type |-> TStr("array"), items |-> ItemsList(l)],
                         "minItems", lo), "maxItems", hi) :
        l \in UNION {ItemSequences(n) : n \in 0..MaxItems}, lo \in ItemCounts, hi \in ItemCounts}
    \cup {[type |-> TStr("array"), items |-> ItemsBool(b)] : b \in BOOLEAN}

TupleFiles ==
    {Document(t, Draft07) : t \in Arrays}
    \cup {Document([type |-> TStr("object"), properties |-> <<Pair("a", t)>>], Draft07) :
            t \in Arrays}

\* A node with an $id and sub-schemas of its own, under the property n of a
\* root, and as the root.
ScopedNodes ==
    {WithId([type |-> TStr("object"), properties |-> <<Pair("a", l)>>], <<"u">>) :
        l \in {Typed("string"), Ref(<<"#", "definitions", "d">>),
               [enum |-> SubSeq(EnumValues, 1, 1)]}}
    \cup {WithId([type |-> TStr("array"), items |-> ItemsSchema(Typed("string"))], <<"u">>),
          WithId([anyOf |-> <<Typed("string"), Typed("null")>>], <<"u">>)}

ScopedFiles ==
    {Document([type |-> TStr("object"), properties |-> <<Pair("n", s)>>], Draft07) :
        s \in ScopedNodes}

FooBar == <<"f", "o", "o", "-", "b", "a", "r">>

\* Nested objects root.a.b for the key paths <<"a">> and <<"a", "b">>.
InnerB ==
    {Typed("object"),
     [type |-> TStr("object"),
      properties |-> <<Pair("x", Typed("string")), Pair("y", Typed("integer"))>>],
     [type |-> TStr("object"),
      properties |-> <<Pair("x", Typed("string")), Pair("y", Typed("integer"))>>,
      required |-> <<"y">>]}

InnerA ==
    {[type |-> TStr("object"), properties |-> <<Pair("b", b), Pair("x", Typed("integer"))>>] :
        b \in InnerB}
    \cup {[type |-> TStr("object"),
           properties |-> <<Pair("b", b), Pair("x", Typed("integer"))>>,
           required |-> <<"x">>] : b \in InnerB}

NestedRoots ==
    {[type |-> TStr("object"), properties |-> <<Pair("a", a)>>] : a \in InnerA}
    \cup {[type |-> TStr("object"), properties |-> <<Pair("a", a)>>, required |-> <<"a">>,
           title |-> FooBar] : a \in InnerA}
    \cup {WithId([type |-> TStr("object"), properties |-> <<Pair("a", a)>>,
                  title |-> FooBar], <<"r">>) : a \in InnerA}
    \cup {[type |-> TStr("array"),
           items |-> ItemsSchema([type |-> TStr("object"), properties |-> <<Pair("a", a)>>])] :
            a \in InnerA}

NestedFiles == {Document(s, Draft07) : s \in NestedRoots}

\* The files the optional plugin is run on: the records, and one type that is
\* no record.
OptionalFiles ==
    NestedFiles
    \cup {Document(o, Draft07) : o \in Objects}
    \cup {Document(Typed("string"), Draft07)}

KeyPaths == {<<>>, <<"a">>, <<"a", "b">>, <<"#">>}

Versions == {"APIv4", "APIv6", "APIv7"}

(***************************************************************************)
(* The state machine: mypy analysing the annotations of a module           *)
(***************************************************************************)
VARIABLES
    file,    \* the schema file on disk
    out,     \* the last analysis: what ran, on what, and what it produced
    alias    \* the target of the module's type alias, Nothing while undefined

vars == <<file, out, alias>>

Out(op, key_path, schema, version, ty, st, arg) ==
    [op |-> op, key_path |-> key_path, schema |-> schema, version |-> version,
     ty |-> ty, st |-> st, arg |-> arg]

\* An exception out of a callback ends the analysis.
Crashed == out.st.err # NoErr

NoOut == Out("none", <<>>, EmptyDict, "", Nothing, NewState(<<>>), Nothing)

Init ==
    /\ \/ file \in LeafFiles
       \/ file \in ObjectFiles
       \/ file \in DraftFiles
       \/ file \in NestedFiles
       \/ file \in TupleFiles
       \/ file \in ScopedFiles
    /\ out = NoOut
    /\ alias = Nothing

InitOptional ==
    /\ file \in OptionalFiles
    /\ out = NoOut
    /\ alias = Nothing

Result(op, key_path, r) == Out(op, key_path, r.schema, r.version, r.ty, r.st, Nothing)

\* x: JSONSchema[file, *key_path]
Annotate(key_path) ==
    /\ ~Crashed
    /\ out' = Result("JSONSchema", key_path, JSONSchemaCallback(file, key_path))
    /\ UNCHANGED <<file, alias>>

\* TypeMaker(path, schema, api_version=version)(ctx)
MakeType(version) ==
    /\ ~Crashed
    /\ out' = Result("TypeMaker", <<>>, Analysed(file, version, TypeMaker(file, version)))
    /\ UNCHANGED <<file, alias>>

\* Alias = JSONSchema[file]
DefineAlias ==
    /\ ~Crashed
    /\ alias = Nothing
    /\ out' = Result("alias", <<>>, JSONSchemaCallback(file, <<>>))
    /\ alias' = out'.ty
    /\ UNCHANGED file

\* x: Alias
UseAlias ==
    /\ ~Crashed
    /\ alias # Nothing
    /\ out' = Out("use", <<>>, EmptyDict, "", alias, NewState(<<>>), Nothing)
    /\ UNCHANGED <<file, alias>>

\* x: OptionalTypedDict[Alias]: analyze_type gives the alias target itself,
\* which the callback changes and returns
OptionalizeAlias ==
    /\ ~Crashed
    /\ alias # Nothing
    /\ alias' = ClearRequired(alias)
    /\ out' = Out("optional-alias", <<>>, EmptyDict, "", alias', NewState(<<>>), alias)
    /\ UNCHANGED file

Optionalized(key_path, r) ==
    Out("optional", key_path, r.schema, r.version,
        IF r.st.err = NoErr THEN ClearRequired(r.ty) ELSE Nothing, r.st, r.ty)

\* x: OptionalTypedDict[JSONSchema[file, *key_path]]: analyze_type runs the
\* JSONSchema callback, which makes a new type
OptionalizeInline(key_path) ==
    /\ ~Crashed
    /\ out' = Optionalized(key_path, JSONSchemaCallback(file, key_path))
    /\ UNCHANGED <<file, alias>>

\* The JSONSchema plugin and TypeMaker on a schema file.
Next ==
    \/ \E key_path \in KeyPaths : Annotate(key_path)
    \/ \E version \in Versions : MakeType(version)

Spec == Init /\ [][Next]_vars

\* A module that aliases a JSONSchema type and wraps types in OptionalTypedDict.
NextOptional ==
    \/ DefineAlias
    \/ UseAlias
    \/ OptionalizeAlias
    \/ \E key_path \in KeyPaths : OptionalizeInline(key_path)

SpecOptional == InitOptional /\ [][NextOptional]_vars

(***************************************************************************)
(* Properties                                                              *)
(***************************************************************************)
\* A compile ran: the callback got as far as TypeMaker, or TypeMaker was called.
Compiled == out.op \in {"JSONSchema", "TypeMaker"} /\ out.version # ""

Returned == Compiled /\ out.st.err = NoErr

FieldNames(ty) ==
    IF ty.k = "TypedDict" THEN {ty.items[i].key : i \in 1..Len(ty.items)} ELSE {}

FieldType(ty, key) == ty.items[CHOOSE i \in 1..Len(ty.items) : ty.items[i].key = key].ty

IsObjectWithProperties(schema) == TypeIs(schema, "object") /\ Has(schema, "properties")

\* C1: the scope stack is the same at the return of every get_type call as
\* at its entry, whatever branch the call took and whether or not the schema
\* has an $id.
C1_ScopeBalanced ==
    Compiled =>
        \A i \in 1..Len(out.st.calls) :
            ~out.st.calls[i].raised => out.st.calls[i].exit = out.st.calls[i].entry

\* The keys of a schema's required array.
RequiredOf(schema) == IF Has(schema, "required") THEN Range(schema.required) ELSE {}

\* The property keys that are to be fields: not the names default and const,
\* and not the keys whose sub-schema is a default alone, which has no type.
CompiledKeys(schema) ==
    {schema.properties[i].key : i \in
        {j \in 1..Len(schema.properties) :
            /\ schema.properties[j].key \notin {"default", "const"}
            /\ Branch(schema.properties[j].schema, FALSE) # "default"}}

\* The record ty has every required key of the schema as a required field and
\* every other property key as an optional field.
RecordOf(schema, ty) ==
    /\ ty.k = "TypedDict"
    /\ \A key \in RequiredOf(schema) : key \in FieldNames(ty) /\ key \in ty.required_keys
    /\ \A key \in CompiledKeys(schema) \ RequiredOf(schema) :
            key \in FieldNames(ty) /\ key \notin ty.required_keys
    /\ ty.required_keys \subseteq FieldNames(ty)

\* C2: the record of an object schema with properties, at the outer position
\* and nested under a property, has the required keys as required fields and
\* the other property keys as optional fields.
C2_RequiredFields ==
    (Returned /\ IsObjectWithProperties(out.schema) /\ ~Has(out.schema, "enum")) =>
        /\ RecordOf(out.schema, out.ty)
        /\ \A i \in 1..Len(out.schema.properties) :
              LET p == out.schema.properties[i]
              IN  (IsObjectWithProperties(p.schema) /\ p.key \in FieldNames(out.ty))
                     => RecordOf(p.schema, FieldType(out.ty, p.key))

\* C3: OptionalTypedDict[Alias] leaves the type it was given, the target of
\* the alias, as it was: its required keys are those it had before the call.
C3_InputNotMutated == out.op = "optional-alias" => alias = out.arg

\* C4: the optionalized record has the name, the fields in order and the field
\* types (with the required flags of the records nested in them) of the record
\* given, and no required key.
C4_Optionalized ==
    (out.op \in {"optional", "optional-alias"} /\ out.arg.k = "TypedDict") =>
        /\ out.ty.k = "TypedDict"
        /\ out.ty.name = out.arg.name
        /\ out.ty.items = out.arg.items
        /\ out.ty.required_keys = {}

C4_Witness ==
    /\ out.op = "optional"
    /\ out.arg.k = "TypedDict"
    /\ out.arg.required_keys # {}
    /\ \E i \in 1..Len(out.arg.items) :
          /\ out.arg.items[i].ty.k = "TypedDict"
          /\ out.arg.items[i].ty.required_keys # {}

\* The rule-set the dispatcher is to select for a schema.
DraftOf(schema) ==
    IF ~Has(schema, "$schema") \/ ~FirstDraft(schema["$schema"]).found THEN "APIv7"
    ELSE IF FirstDraft(schema["$schema"]).group = DraftPrefix \o <<"0", "4">> THEN "APIv4"
    ELSE IF FirstDraft(schema["$schema"]).group = DraftPrefix \o <<"0", "6">> THEN "APIv6"
    ELSE "APIv7"

\* C5: the callback selects a rule-set for every schema and goes on to compile:
\* draft-07 when $schema is absent, has no draft token or names another draft.
C5_DispatchTotal ==
    (out.op = "JSONSchema" /\ make_subschema(file, out.key_path).err = NoErr) =>
        /\ out.st.err # "StopIteration"
        /\ out.version = DraftOf(out.schema)

IntType == Instance("int", <<>>)

IntOrFloat == [k |-> "Union", items |-> <<Instance("int", <<>>), Instance("float", <<>>)>>]

RECURSIVE MentionsType(_, _)
\* The type name occurs in a type keyword somewhere in the schema.
MentionsType(schema, name) ==
    \/ Has(schema, "type") /\ name \in Range(schema.type.names)
    \/ \E kw \in {"properties", "definitions"} \cap DOMAIN schema :
          \E i \in 1..Len(schema[kw]) : MentionsType(schema[kw][i].schema, name)
    \/ Has(schema, "items") /\ \E i \in 1..Len(schema.items.l) :
          MentionsType(schema.items.l[i], name)
    \/ \E kw \in {"allOf", "anyOf", "oneOf"} \cap DOMAIN schema :
          \E i \in 1..Len(schema[kw]) : MentionsType(schema[kw][i], name)

SameOutcome(a, b) == a.ty = b.ty /\ a.st = b.st

\* C6: a schema of type integer compiles to int under draft-04 and to
\* Union[int, float] under draft-06 and draft-07, at the root and under a
\* property; a schema that has no integer compiles to the same under all three.
C6_IntegerByDraft ==
    Compiled =>
        /\ (TypeIs(out.schema, "integer") /\ ~Has(out.schema, "enum")) =>
              /\ out.st.err = NoErr
              /\ out.ty = IF out.version = "APIv4" THEN IntType ELSE IntOrFloat
        /\ (IsObjectWithProperties(out.schema) /\ out.st.err = NoErr) =>
              \A i \in 1..Len(out.schema.properties) :
                 LET p == out.schema.properties[i]
                 IN  (p.key \in FieldNames(out.ty) /\ p.schema = Typed("integer")) =>
                        FieldType(out.ty, p.key) =
                            IF out.version = "APIv4" THEN IntType ELSE IntOrFloat
        /\ ~MentionsType(out.schema, "integer") =>
              \A version \in Versions : SameOutcome(TypeMaker(out.schema, version), out)

C6_Witness ==
    /\ out.op = "JSONSchema"
    /\ out.version = "APIv4"
    /\ TypeIs(out.schema, "integer")
    /\ out.ty = IntType

\* Union([Literal(v1), ..., Literal(vn)])
LiteralUnion(values) ==
    [k |-> "Union",
     items |-> [i \in 1..Len(values) |->
                  [k |-> "Literal", value |-> values[i],
                   fallback |-> Instance(values[i].t, <<>>)]]]

\* C7: a schema with an enum compiles to the union of the literals of the enum
\* values, in order, whatever its type keyword, at the outer position and under
\* a property.  (At the outer position the formula leaves the type lists to
\* C9 and states the claim for an absent type and for a type string.)
C7_EnumUnion ==
    Compiled =>
        /\ (Has(out.schema, "enum") /\ ~(Has(out.schema, "type") /\ out.schema.type.isList)) =>
              out.st.err = NoErr /\ out.ty = LiteralUnion(out.schema.enum)
        /\ (IsObjectWithProperties(out.schema) /\ ~Has(out.schema, "enum")) =>
              \A i \in 1..Len(out.schema.properties) :
                 LET p == out.schema.properties[i]
                 IN  (p.key \notin {"default", "const"} /\ Has(p.schema, "enum")) =>
                        /\ out.st.err = NoErr
                        /\ FieldType(out.ty, p.key) = LiteralUnion(p.schema.enum)

\* C8: a type string that names no handler compiles to Any with a warning, and
\* raises nothing.
C8_UnknownTypeIsAny ==
    (Compiled /\ Has(out.schema, "type") /\ ~out.schema.type.isList
       /\ out.schema.type.names[1] \notin HandlerNames /\ ~Has(out.schema, "enum")) =>
        /\ out.st.err = NoErr
        /\ out.ty = AnyType
        /\ out.st.warns # <<>>

\* C9: at the outer position a type list with object compiles, with a warning,
\* to what the schema compiles to with type "object"; a type list without
\* object raises NotImplementedError and gives no type.
C9_RootTypeList ==
    (Compiled /\ Has(out.schema, "type") /\ out.schema.type.isList) =>
        IF "object" \in Range(out.schema.type.names)
        THEN LET single == TypeMaker(With(out.schema, "type", TStr("object")), out.version)
             IN  /\ out.ty = single.ty
                 /\ out.st.err = single.st.err
                 /\ out.st.stack = single.st.stack
                 /\ out.st.warns = <<"root-array">> \o single.st.warns
        ELSE out.st.err = "NotImplementedError:root" /\ out.ty = Nothing

C9_Witness ==
    /\ Returned
    /\ Has(out.schema, "type") /\ out.schema.type.isList
    /\ out.ty.k = "TypedDict"
    /\ Len(out.ty.items) = 2
    /\ out.ty.required_keys # {}

\* What the claim compares of two types: the fields in order with their types,
\* and the required keys.
Shape(ty) ==
    IF ty.k = "TypedDict" THEN [items |-> ty.items, required_keys |-> ty.required_keys]
    ELSE [items |-> <<ty>>, required_keys |-> {}]

\* The schema at properties.a.properties.b of a root, as a document of its own.
SubSchemaAB(root) ==
    With(Lookup(Lookup(root.properties, "a").properties, "b"), "$schema", root["$schema"])

\* C10: for a root whose property a is an object with a property b that is an
\* object, the type of JSONSchema[file, "a", "b"] has the fields, field types
\* and required keys of the type compiled from properties.a.properties.b.
C10_NarrowIsSubSchema ==
    (/\ out.op = "JSONSchema"
     /\ out.key_path = <<"a", "b">>
     /\ IsObjectWithProperties(file)
     /\ HasKey(file.properties, "a")
     /\ IsObjectWithProperties(Lookup(file.properties, "a"))
     /\ HasKey(Lookup(file.properties, "a").properties, "b")
     /\ TypeIs(Lookup(Lookup(file.properties, "a").properties, "b"), "object")) =>
        LET direct == TypeMaker(SubSchemaAB(file), out.version)
        IN  /\ out.st.err = direct.st.err
            /\ Shape(out.ty) = Shape(direct.ty)

\* The sub-schema a property key leads to from a schema, through the items of
\* an array: [ok, schema].
Child(r, key) ==
    LET s == IF r.ok /\ TypeIs(r.schema, "array") /\ Has(r.schema, "items")
                /\ r.schema.items.k = "schema"
             THEN r.schema.items.l[1] ELSE r.schema
    IN  IF r.ok /\ Has(s, "properties") /\ HasKey(s.properties, key)
        THEN [ok |-> TRUE, schema |-> Lookup(s.properties, key)]
        ELSE [ok |-> FALSE, schema |-> EmptyDict]

\* The sub-schema at a path of one or two property keys.
Target(root, path) ==
    IF Len(path) = 1 THEN Child([ok |-> TRUE, schema |-> root], path[1])
    ELSE Child(Child([ok |-> TRUE, schema |-> root], path[1]), path[2])

PropertyPath(path) == path # <<>> /\ "#" \notin Range(path)

\* C11: in the schema narrowed along a path of property keys, every keyword
\* other than $schema, $id, title, type, properties and items has the value
\* the target sub-schema declares for it; none comes from the root or from a
\* container on the path.
C11_NoContainerKeywords ==
    (/\ out.op = "JSONSchema"
     /\ out.version # ""
     /\ PropertyPath(out.key_path)
     /\ Target(file, out.key_path).ok) =>
        \A kw \in (DOMAIN out.schema) \ Inherited :
            /\ Has(Target(file, out.key_path).schema, kw)
            /\ out.schema[kw] = Target(file, out.key_path).schema[kw]

\* minItems and maxItems are each absent or the length of the items sequence.
ItemsAgree(schema) ==
    /\ Has(schema, "minItems") => schema.minItems = Len(schema.items.l)
    /\ Has(schema, "maxItems") => schema.maxItems = Len(schema.items.l)

\* compile(S) of an element of the items sequence.
ElementType(root, version, s) ==
    get_type(TypeMakerApi(root, version), s, FALSE, NewState(<<Scope(<<>>, <<>>)>>), 0).ty

\* Tuple([compile(S1), ..., compile(Sn)])
TupleOf(root, version, l) ==
    [k |-> "Tuple", items |-> [i \in 1..Len(l) |-> ElementType(root, version, l[i])]]

IsTupleSchema(schema) ==
    TypeIs(schema, "array") /\ ~Has(schema, "enum") /\ Has(schema, "items")
    /\ schema.items.k = "list"

ItemsFalse(schema) ==
    TypeIs(schema, "array") /\ ~Has(schema, "enum") /\ Has(schema, "items")
    /\ schema.items.k = "bool" /\ ~schema.items.b

\* C12: an array with an items sequence of length n compiles to the tuple of
\* the element types in order when minItems and maxItems are each absent or
\* n, and raises NotImplementedError when one of them is another number; items
\* false raises NotImplementedError.  At the root and under a property.
C12_TupleItems ==
    Compiled =>
        /\ IsTupleSchema(out.schema) =>
              IF ItemsAgree(out.schema)
              THEN /\ out.st.err = NoErr
                   /\ out.ty = TupleOf(out.schema, out.version, out.schema.items.l)
              ELSE out.st.err = "NotImplementedError:items" /\ out.ty = Nothing
        /\ ItemsFalse(out.schema) =>
              out.st.err = "NotImplementedError:items" /\ out.ty = Nothing
        /\ (IsObjectWithProperties(out.schema) /\ ~Has(out.schema, "enum")) =>
              \A i \in 1..Len(out.schema.properties) :
                 LET p == out.schema.properties[i]
                 IN  /\ (p.key = "a" /\ IsTupleSchema(p.schema)) =>
                           IF ItemsAgree(p.schema)
                           THEN /\ out.st.err = NoErr
                                /\ FieldType(out.ty, "a") =
                                      TupleOf(out.schema, out.version, p.schema.items.l)
                           ELSE out.st.err = "NotImplementedError:items"
                     /\ (p.key = "a" /\ ItemsFalse(p.schema)) =>
                           out.st.err = "NotImplementedError:items"

C12_Witness ==
    /\ Returned
    /\ IsTupleSchema(out.schema)
    /\ Has(out.schema, "minItems") /\ Has(out.schema, "maxItems")
    /\ out.ty.k = "Tuple"
    /\ Len(out.ty.items) = 2

\* C13: the compile of a schema whose $ref graph has a cycle is ended by the
\* compiler, with its own error for the cycle; it does not recurse until the
\* interpreter runs out of stack (RecursionError).
C13_CycleBounded == Compiled => out.st.err # "RecursionError"

RECURSIVE PathTitle(_, _)
\* The title with the path segments other than "#" added to it.
PathTitle(title, path) ==
    IF path = <<>> THEN title
    ELSE PathTitle(IF Head(path) = "#" THEN title ELSE title \o Suffix(" ", Head(path)),
                   Tail(path))

RootTitle(root) == IF Has(root, "title") THEN root.title ELSE DefaultTitle

\* C14: the record of JSONSchema[file, k1, ..., kn] is named by the outer name
\* of the root, its sanitized title or the default, followed by the segments
\* k1..kn that are not "#".
C14_NarrowedName ==
    (/\ out.op = "JSONSchema"
     /\ PropertyPath(out.key_path)
     /\ Target(file, out.key_path).ok
     /\ IsObjectWithProperties(Target(file, out.key_path).schema)
     /\ out.st.err = NoErr
     /\ out.ty.k = "TypedDict") =>
        out.ty.name = _sanitize_name(PathTitle(RootTitle(file), out.key_path))

\* The properties that are to be fields, in encounter order.
CompiledProperties(schema) ==
    SelectSeq(schema.properties,
              LAMBDA p : p.key \notin {"default", "const"}
                         /\ Branch(p.schema, FALSE) # "default")

\* C15: an object schema with a properties keyword compiles to a record whose
\* fields are the property keys that are not default or const and whose
\* sub-schema compiled to a type, in order; to a record of no fields when
\* there is none.
C15_RecordOfProperties ==
    (Compiled /\ IsObjectWithProperties(out.schema) /\ ~Has(out.schema, "enum")) =>
        /\ out.st.err # "ValueError"
        /\ out.st.err = NoErr =>
              /\ out.ty.k = "TypedDict"
              /\ [i \in 1..Len(out.ty.items) |-> out.ty.items[i].key]
                    = [i \in 1..Len(CompiledProperties(out.schema)) |->
                         CompiledProperties(out.schema)[i].key]

\* The scope a get_type call has pushed when it reaches the handler of a
\* type-absent branch: that of the $id of its schema, if it has one.
Pushed(id) == IF id # <<>> THEN <<Scope(id, <<>>)>> ELSE <<>>

\* C16: the scope stack after the $ref handler is the stack at its entry, when
\* the compile of the resolved fragment returns and when it raises.  (The
\* handler is entered from the get_type call of the $ref branch, after the
\* push of that call.)
C16_RefRestoresStack ==
    Compiled =>
        \A i \in 1..Len(out.st.calls) :
            out.st.calls[i].branch = "$ref" =>
                out.st.calls[i].exit = out.st.calls[i].entry \o Pushed(out.st.calls[i].id)

\* The calls are logged as they end: call j is made within call i when it and
\* every call logged between them are deeper than call i.
Within(calls, j, i) == j < i /\ \A m \in j..(i - 1) : calls[m].depth > calls[i].depth

\* C17: while the sub-schemas of a node with an $id are compiled, the scope of
\* the node is on the scope stack: every get_type call made within the call
\* of the node is entered with it on the stack.
C17_ScopeCoversDescendants ==
    Compiled =>
        \A i \in 1..Len(out.st.calls) :
            out.st.calls[i].hasId =>
                \A j \in 1..Len(out.st.calls) :
                    Within(out.st.calls, j, i) =>
                        Scope(out.st.calls[i].id, <<>>) \in Range(out.st.calls[j].entry)

IsSelfRef(schema) == Branch(schema, FALSE) = "$ref" /\ schema["$ref"] = <<"#">>

Warned(w) == \E i \in 1..Len(out.st.warns) : out.st.warns[i] = w

\* The stack after the compile of a self-reference at the root, and in the
\* only property, a, of a root object.
StackAfter(node) == <<Scope(id_of(out.schema), <<>>)>> \o Pushed(id_of(node))

SelfRefAtRoot == Compiled /\ IsSelfRef(out.schema)

SelfRefInProperty ==
    /\ Compiled
    /\ IsObjectWithProperties(out.schema) /\ ~Has(out.schema, "enum")
    /\ Len(out.schema.properties) = 1
    /\ out.schema.properties[1].key = "a"
    /\ IsSelfRef(out.schema.properties[1].schema)

EmptyRecord(ty) == ty.k = "TypedDict" /\ ty.items = <<>>

RECURSIVE ContainsNothing(_)
\* The nothing of an unsupported schema is the type or is somewhere inside it.
ContainsNothing(ty) ==
    CASE ty.k = "Nothing" -> TRUE
      [] ty.k = "Instance" -> \E i \in 1..Len(ty.args) : ContainsNothing(ty.args[i])
      [] ty.k \in {"Union", "Tuple"} -> \E i \in 1..Len(ty.items) : ContainsNothing(ty.items[i])
      [] ty.k = "TypedDict" -> \E i \in 1..Len(ty.items) : ContainsNothing(ty.items[i].ty)
      [] OTHER -> FALSE

\* C19: nothing is never inside an emitted type: the fields of a record, the
\* members of a union, the element of a list and the elements of a tuple are
\* types.
C19_NoNothingInside == (Returned /\ out.ty # Nothing) => ~ContainsNothing(out.ty)

\* C20: no get_type call, at the root or nested, fails the assertion that the
\* schema type is a string: every call reaches a keyword branch or a handler.
C20_TypeAssertionHolds ==
    Compiled =>
        /\ out.st.err # "AssertionError"
        /\ \A i \in 1..Len(out.st.calls) : out.st.calls[i].branch # "assert"

=============================================================================
